---- MODULE Spec2Model ----
(***************************************************************************)
(* fx-dashboard: the tick collection cycle, the latest snapshot and the    *)
(* /api/analysis cache/cooldown guard.                                     *)
(*                                                                         *)
(* The repository holds three variants of the server:                      *)
(*   part_000  refresh() + /api/candles, no analysis endpoint              *)
(*   part_001  collectData() + /api/analysis with 12 h cache, 5 min        *)
(*             cooldown, errors answered 429/500/503                       *)
(*   part_002  refresh() + /api/analysis with 2 h cache, no cooldown,      *)
(*             every failure answered 200 + degraded                       *)
(* `version` says which one runs; it is chosen in Init and never changes.  *)
(* `sw` is the service worker that the page registers (sw.js); it runs in  *)
(* the browser, beside whichever server answers.                           *)
(*                                                                         *)
(* Node runs one callback at a time: an action is one run-to-completion    *)
(* segment of a handler, from one await to the next.                       *)
(***************************************************************************)
EXTENDS Integers, Sequences, FiniteSets, TLC

VARIABLES
    version,          \* which server file runs
    now,              \* Date.now(), ms since an arbitrary origin
    state,            \* the latest snapshot (`state`)
    ticks,            \* the ticks table, in insertion order
    cycles,           \* the refresh()/collectData() calls, by number
    lastRead,         \* what the latest GET /api/latest answered
    hasKey,           \* OPENAI_API_KEY is configured
    analysisCache,    \* analysisCache: subject -> entry
    lastAnalysisTime, \* lastAnalysisTime (part_001)
    reqs,             \* the GET /api/analysis requests, in order of arrival
    nAdvance,         \* how often the clock was advanced between requests
    batches,          \* the arguments of the saveTicks calls made directly
    lastQuery,        \* the latest query of the ticks table and its rows
    lastCandles,      \* the latest getCandles call and what it returned
    sw                \* the service worker of the page (sw.js): its cache and its fetch events

vars == <<version, now, state, ticks, cycles, lastRead,
          hasKey, analysisCache, lastAnalysisTime, reqs, nAdvance, batches, lastQuery,
          lastCandles, sw>>

collectVars == <<state, ticks, cycles, lastRead>>
analysisVars == <<hasKey, analysisCache, lastAnalysisTime, reqs, nAdvance>>
storeVars == <<batches, lastQuery, lastCandles, sw>>

(***************************************************************************)
(* Bounds of the model.                                                    *)
(***************************************************************************)
MaxCycles == 2

Versions == {"part_000", "part_001", "part_002"}
RefreshVersions == {"part_000", "part_002"}

CycleIds == 1 .. MaxCycles

(***************************************************************************)
(* JavaScript values. Numbers are held in units of 1e-4.                   *)
(***************************************************************************)
Null == [k |-> "null"]
NaN == [k |-> "NaN"]
Num(v) == [k |-> "number", v |-> v]
Str(v) == [k |-> "string", v |-> v]
Infinity == [k |-> "Infinity"]
Undefined == [k |-> "undefined"]

\* typeof value === "number" && Number.isFinite(value)
IsFiniteNumber(x) == x.k = "number"

\* typeof x === "number": NaN and Infinity are numbers too
TypeofNumber(x) == x.k \in {"number", "NaN", "Infinity"}

\* if (x): null, undefined, NaN, 0 and "" are falsy; Infinity is truthy
Truthy(x) ==
    CASE x.k = "number" -> x.v # 0
      [] x.k = "string" -> TRUE
      [] x.k = "Infinity" -> TRUE
      [] OTHER -> FALSE

\* isNaN(x) of a parseFloat result
IsNaN(x) == x.k = "NaN"

Primary == {"USDKRW", "EURKRW", "DXY", "KR10Y", "US10Y"}
Symbols == Primary \cup {"SPREAD10Y"}

\* the order of the entries saveTicks is handed
EntryOrder == <<"USDKRW", "EURKRW", "DXY", "KR10Y", "US10Y", "SPREAD10Y">>

\* what a successful fetch of cycle c may yield, in 1e-4 units
FetchValues(c) == {35000 + 6236 * c}

\* the US yield stands 0.8762 above the Korean one
US_OVER_KR == 8762

\* what crawlNaverBond may fetch for sym in cycle c
YieldValues(c, sym) == {x + (IF sym = "US10Y" THEN US_OVER_KR ELSE 0) : x \in FetchValues(c)}

Abs(x) == IF x < 0 THEN -x ELSE x

\* x.toFixed(d) of a value in 1e-4 units: rounded to 4-d dropped digits
ToFixed(x, d) ==
    LET unit == IF d = 3 THEN 10 ELSE 100
        q == (Abs(x) + unit \div 2) \div unit
    IN (IF x < 0 THEN -1 ELSE 1) * q * unit

ERRORS_CAP == 6

\* errors.slice(0, n)
Slice(s, n) == IF Len(s) <= n THEN s ELSE SubSeq(s, 1, n)

(***************************************************************************)
(* The snapshot.                                                           *)
(***************************************************************************)
InitState(v) ==
    [val |-> [s \in Symbols |-> Null],
     asofKST |-> 0,
     status |-> IF v \in RefreshVersions THEN "BOOT" ELSE "NONE",
     errors |-> <<>>]

\* the slot written by replacing the whole record of values: the other slots
\* are cleared
SetValWholesale(st, s, x) == [st EXCEPT !.val = [t \in Symbols |-> IF t = s THEN x ELSE Null]]

\* state.usdkrw = fx.usdkrw, state.kr10y = ..., state.DXY = dxy
SetVal(st, s, x) == [st EXCEPT !.val[s] = x]

(***************************************************************************)
(* The ticks table.                                                        *)
(***************************************************************************)
\* insertTick.run(ts, symbol, value); cyc is the cycle that wrote the row
Row(ts, s, x, c) == [ts |-> ts, symbol |-> s, value |-> x, cyc |-> c]

\* the transaction losing its last INSERT
InsertAllButLast(tab, ts, c, kept) ==
    tab \o [i \in 1 .. Len(kept) - 1 |-> Row(ts, kept[i][1], kept[i][2], c)]

\* INSERT OR REPLACE on (ts, symbol): a new row takes the place of an old one
InsertAllReplacing(tab, ts, c, kept) ==
    SelectSeq(tab, LAMBDA r : \A i \in 1 .. Len(kept) : ~(r.ts = ts /\ r.symbol = kept[i][1]))
        \o [i \in 1 .. Len(kept) |-> Row(ts, kept[i][1], kept[i][2], c)]

\* the rows of one transaction: an INSERT for each kept entry, in order
InsertAll(tab, ts, c, kept) ==
    tab \o [i \in 1 .. Len(kept) |-> Row(ts, kept[i][1], kept[i][2], c)]

\* part_000 / part_002: saveTicks(ts, map), one transaction
SaveTicksFinite(tab, ts, c, map) ==
    LET pairs == [i \in 1 .. Len(EntryOrder) |-> <<EntryOrder[i], map[EntryOrder[i]]>>]
    IN InsertAll(tab, ts, c, SelectSeq(pairs, LAMBDA e : IsFiniteNumber(e[2])))

\* part_001: saveTicks(ts, data): the five primaries, each if truthy
SaveTicksTruthy(tab, ts, c, data) ==
    LET pairs == [i \in 1 .. 5 |-> <<EntryOrder[i], data[EntryOrder[i]]>>]
    IN InsertAll(tab, ts, c, SelectSeq(pairs, LAMBDA e : Truthy(e[2])))

(***************************************************************************)
(* Collection cycles.                                                      *)
(***************************************************************************)
BootTime == 400 * 1000
TIMER_MS == 10000

NoSnap == [val |-> <<>>, asofKST |-> -1, status |-> "", errors |-> <<>>]

IdleCycle ==
    [pc |-> "idle", errors |-> <<>>, status |-> "OK", got |-> {},
     ret |-> [s \in Primary |-> Null], pending |-> {}, ts |-> 0,
     pre |-> NoSnap, post |-> NoSnap, alone |-> TRUE]

InFlight(c) == cycles[c].pc \notin {"idle", "done"}

\* the error message a failed crawler of cycle c produces
Msg(c, src) == [cyc |-> c, src |-> src]

\* a call of refresh() (part_000, part_002) or collectData() (part_001) runs up
\* to its first await
Begin(v, st, c, t, others) ==
    [IdleCycle EXCEPT
        !.pc = IF v \in RefreshVersions THEN "fx" ELSE "crawl",
        !.pending = IF v \in RefreshVersions THEN {} ELSE {"fx", "bond", "dxy"},
        !.ts = t \div 1000,
        !.pre = st,
        !.alone = ~others]

\* collectData: state.errors = []
BeginState(v, st) ==
    IF v \in RefreshVersions THEN st ELSE [st EXCEPT !.errors = <<>>]

\* setInterval(refresh, 10_000) / setInterval(collectData, 10000) fires
StartCycle(c) ==
    /\ c > 1
    /\ cycles[c].pc = "idle"
    /\ cycles[c - 1].pc # "idle"
    /\ now' = now + TIMER_MS
    /\ LET others == \E d \in CycleIds : InFlight(d)
       IN cycles' = [d \in CycleIds |->
                        IF d = c THEN Begin(version, state, c, now', others)
                        ELSE IF InFlight(d) THEN [cycles[d] EXCEPT !.alone = FALSE]
                        ELSE cycles[d]]
    /\ state' = BeginState(version, state)
    /\ UNCHANGED <<version, ticks, lastRead, analysisVars, storeVars>>

\* catch (e) { errors.push(String(e.message||e)); status = "WARN"; }
Caught(cy, c, src) ==
    [cy EXCEPT !.errors = Append(@, Msg(c, src)), !.status = "WARN"]

\* refresh: const fx = await crawlNaverFx() resumes
FxDone(c) ==
    /\ version \in RefreshVersions
    /\ cycles[c].pc = "fx"
    /\ \/ \* crawlNaverFx threw (HTTP error, or neither rate was parsed)
          /\ cycles' = [cycles EXCEPT ![c] = [Caught(@, c, "fx") EXCEPT !.pc = "kr"]]
          /\ UNCHANGED state
       \/ \E u, e \in {Null} \cup {Num(x) : x \in FetchValues(c)} :
              /\ ~(u = Null /\ e = Null)
              /\ state' = LET s1 == IF TypeofNumber(u) THEN SetVal(state, "USDKRW", u) ELSE state
                          IN IF TypeofNumber(e) THEN SetVal(s1, "EURKRW", e) ELSE s1
              /\ cycles' = [cycles EXCEPT ![c].pc = "kr",
                               ![c].got = @ \cup {s \in {"USDKRW", "EURKRW"} :
                                   IF s = "USDKRW" THEN u # Null ELSE e # Null}]
    /\ UNCHANGED <<version, now, ticks, lastRead, analysisVars, storeVars>>

\* refresh: state.kr10y = await crawlNaverBond(KR10YT) / state.us10y = ... resumes
BondDone(c, at, sym, next) ==
    /\ version \in RefreshVersions
    /\ cycles[c].pc = at
    /\ \/ /\ cycles' = [cycles EXCEPT ![c] = [Caught(@, c, at) EXCEPT !.pc = next]]
          /\ UNCHANGED state
       \/ \E x \in YieldValues(c, sym) :
              /\ state' = SetVal(state, sym, Num(x))
              /\ cycles' = [cycles EXCEPT ![c].pc = next, ![c].got = @ \cup {sym}]
    /\ UNCHANGED <<version, now, ticks, lastRead, analysisVars, storeVars>>

KrDone(c) == BondDone(c, "kr", "KR10Y", "us")

UsDone(c) == BondDone(c, "us", "US10Y", "dxy")

\* the spread taken as KR10Y minus US10Y
WithSpreadReversed(st) ==
    IF TypeofNumber(st.val["US10Y"]) /\ TypeofNumber(st.val["KR10Y"])
    THEN SetVal(st, "SPREAD10Y", Num(ToFixed(st.val["KR10Y"].v - st.val["US10Y"].v, 3)))
    ELSE st

\* refresh, lines 191-193: the spread from the two snapshot slots
WithSpread(st) ==
    IF TypeofNumber(st.val["US10Y"]) /\ TypeofNumber(st.val["KR10Y"])
    THEN SetVal(st, "SPREAD10Y", Num(ToFixed(st.val["US10Y"].v - st.val["KR10Y"].v, 3)))
    ELSE st

\* refresh, lines 195-198: asofKST, status, errors
Stamp(st, t, status, errors) ==
    [st EXCEPT !.asofKST = t \div 1000, !.status = status,
               !.errors = Slice(errors, ERRORS_CAP)]

\* refresh, lines 201-208: the map handed to saveTicks
TickMap(st) == [s \in Symbols |-> st.val[s]]

\* refresh: state.dxy = await crawlInvestingDXY() resumes, and the rest of
\* refresh runs without another await
DxyDone(c) ==
    /\ version \in RefreshVersions
    /\ cycles[c].pc = "dxy"
    /\ \E ok \in BOOLEAN, x \in FetchValues(c) :
          LET cy == IF ok THEN [cycles[c] EXCEPT !.got = @ \cup {"DXY"}]
                    ELSE [cycles[c] EXCEPT !.errors = Append(@, Msg(c, "dxy")),
                             !.status = IF @ = "OK" THEN "WARN" ELSE @]
              s1 == IF ok THEN SetVal(state, "DXY", Num(x)) ELSE state
              s2 == Stamp(WithSpread(s1), now, cy.status, cy.errors)
          IN /\ state' = s2
             /\ ticks' = SaveTicksFinite(ticks, now, c, TickMap(s2))
             /\ cycles' = [cycles EXCEPT ![c] = [cy EXCEPT !.pc = "done", !.post = s2]]
    /\ UNCHANGED <<version, now, lastRead, analysisVars, storeVars>>

\* collectData giving up its batch write when a crawler has reported a failure
FinishUnlessFailed(cy, st, c) ==
    LET s2 == [st EXCEPT !.asofKST = now \div 1000]
    IN /\ state' = s2
       /\ ticks' = IF st.errors = <<>> THEN SaveTicksTruthy(ticks, cy.ts, c, cy.ret) ELSE ticks
       /\ cycles' = [cycles EXCEPT ![c] = [cy EXCEPT !.pc = "done", !.post = s2]]

\* collectData, lines 216-217, once Promise.all has resolved
Finish(cy, st, c) ==
    LET s2 == [st EXCEPT !.asofKST = now \div 1000]
    IN /\ state' = s2
       /\ ticks' = SaveTicksTruthy(ticks, cy.ts, c, cy.ret)
       /\ cycles' = [cycles EXCEPT ![c] = [cy EXCEPT !.pc = "done", !.post = s2]]

\* one crawler of collectData settles; the last one to settle lets collectData
\* run on to its end in the same turn of the event loop
Settle(c, src, cy, st) ==
    LET cy2 == [cy EXCEPT !.pending = @ \ {src}]
    IN IF cy2.pending = {}
       THEN Finish(cy2, st, c)
       ELSE /\ state' = st
            /\ cycles' = [cycles EXCEPT ![c] = cy2]
            /\ UNCHANGED ticks

\* catch (err) { state.errors.push("... 크롤링 실패"); return null... }
PushError(st, c, src) == [st EXCEPT !.errors = Append(@, Msg(c, src))]

\* what parseFloat(...) of a fetched page may give in cycle c
Parsed(c) == {NaN} \cup {Num(x) : x \in FetchValues(c)}

\* part_001 crawlNaverFx, lines 83-108
CrawlFxDone(c) ==
    /\ version = "part_001"
    /\ cycles[c].pc = "crawl"
    /\ "fx" \in cycles[c].pending
    /\ \/ Settle(c, "fx", cycles[c], PushError(state, c, "fx"))
       \/ \E u, e \in Parsed(c) :
              LET s1 == IF ~IsNaN(u) THEN SetVal(state, "USDKRW", u) ELSE state
                  s2 == IF ~IsNaN(e) THEN SetVal(s1, "EURKRW", e) ELSE s1
                  cy == [cycles[c] EXCEPT
                            !.ret = [@ EXCEPT !["USDKRW"] = u, !["EURKRW"] = e],
                            !.got = @ \cup {s \in {"USDKRW", "EURKRW"} :
                                IF s = "USDKRW" THEN ~IsNaN(u) ELSE ~IsNaN(e)}]
              IN Settle(c, "fx", cy, s2)
    /\ UNCHANGED <<version, now, lastRead, analysisVars, storeVars>>

\* part_001 crawlNaverBond, lines 113-141
CrawlBondDone(c) ==
    /\ version = "part_001"
    /\ cycles[c].pc = "crawl"
    /\ "bond" \in cycles[c].pending
    /\ \/ Settle(c, "bond", cycles[c], PushError(state, c, "bond"))
       \/ \E kr \in Parsed(c), us \in {NaN} \cup {Num(x) : x \in YieldValues(c, "US10Y")} :
              LET s1 == IF ~IsNaN(kr) THEN SetVal(state, "KR10Y", kr) ELSE state
                  s2 == IF ~IsNaN(us) THEN SetVal(s1, "US10Y", us) ELSE s1
                  s3 == IF ~IsNaN(kr) /\ ~IsNaN(us)
                        THEN SetVal(s2, "SPREAD10Y", Str(ToFixed(us.v - kr.v, 2)))
                        ELSE s2
                  cy == [cycles[c] EXCEPT
                            !.ret = [@ EXCEPT !["KR10Y"] = kr, !["US10Y"] = us],
                            !.got = @ \cup {s \in {"KR10Y", "US10Y"} :
                                IF s = "KR10Y" THEN ~IsNaN(kr) ELSE ~IsNaN(us)}]
              IN Settle(c, "bond", cy, s3)
    /\ UNCHANGED <<version, now, lastRead, analysisVars, storeVars>>

\* part_001 crawlInvestingDXY, lines 146-163
CrawlDxyDone(c) ==
    /\ version = "part_001"
    /\ cycles[c].pc = "crawl"
    /\ "dxy" \in cycles[c].pending
    /\ \/ Settle(c, "dxy", cycles[c], PushError(state, c, "dxy"))
       \/ \E x \in FetchValues(c) :
              Settle(c, "dxy",
                     [cycles[c] EXCEPT !.ret = [@ EXCEPT !["DXY"] = Num(x)],
                                       !.got = @ \cup {"DXY"}],
                     SetVal(state, "DXY", Num(x)))
    /\ UNCHANGED <<version, now, lastRead, analysisVars, storeVars>>

\* app.get("/api/latest", (req, res) => res.json(state))
ReadLatest ==
    /\ lastRead' = [snap |-> state, during |-> {d \in CycleIds : InFlight(d)}]
    /\ UNCHANGED <<version, now, state, ticks, cycles, analysisVars, storeVars>>

(***************************************************************************)
(* GET /api/analysis: the cache and the cooldown.                          *)
(***************************************************************************)
MaxReqs == 2
MaxAdvance == 1

Subjects == {"USDKRW", "EURKRW"}

ANALYSIS_COOLDOWN_MS == 5 * 60 * 1000

\* part_001 line 70 (12 h), part_002 line 74 (2 h)
ANALYSIS_TTL_MS(v) == IF v = "part_001" THEN 12 * 60 * 60 * 1000 ELSE 2 * 60 * 60 * 1000

\* the analysis endpoint exists in part_001 and part_002
AnalysisVersions == {"part_001", "part_002"}

\* analysisCache.get(key) of a key never set
NoEntry == [ts |-> -1, payload |-> 0]

NoResp == [http |-> 0, kind |-> "none", payload |-> 0, retryAfter |-> 0, degraded |-> FALSE]

Resp(http, kind, payload, retryAfter, degraded) ==
    [http |-> http, kind |-> kind, payload |-> payload, retryAfter |-> retryAfter,
     degraded |-> degraded]

\* Math.ceil(a / b) for a >= 0, b > 0
CeilDiv(a, b) == (a + b - 1) \div b

\* the cache check with the cooldown constant in the place of the TTL
CacheFreshWrongConstant(v, entry, t) == entry # NoEntry /\ t - entry.ts < ANALYSIS_COOLDOWN_MS

\* the cache check with <= in the place of <: an entry of age TTL still serves
CacheFreshInclusive(v, entry, t) == entry # NoEntry /\ t - entry.ts <= ANALYSIS_TTL_MS(v)

\* cached && now - cached.timestamp < ANALYSIS_TTL_MS
CacheFresh(v, entry, t) == entry # NoEntry /\ t - entry.ts < ANALYSIS_TTL_MS(v)

\* part_001: now - lastAnalysisTime < ANALYSIS_COOLDOWN_MS
InCooldown(t, last) == t - last < ANALYSIS_COOLDOWN_MS

\* part_001: waitSec
WaitSec(t, last) == CeilDiv(ANALYSIS_COOLDOWN_MS - (t - last), 1000)

\* a request that has arrived: its subject, its `now`, where it waits, the
\* time it called the generation collaborator (-1: never), its answer, how the
\* fetch of the headlines (build) and the generation call (gen) ended, and
\* the timestamp of the subject's cache entry when it arrived (-1: none)
Req(sym, t, pc, callAt, resp, cachedTs) ==
    [sym |-> sym, now |-> t, pc |-> pc, callAt |-> callAt, resp |-> resp,
     build |-> "none", gen |-> "none", cachedTs |-> cachedTs]

\* the reservation left out: lastAnalysisTime keeps its old value
ReserveForgotten(t, last) == last

\* part_001 line 359: lastAnalysisTime = now, ahead of the call
Reserve(t, last) == t

\* the handler of part_001 up to its await, lines 334-382
Arrive001(sym) ==
    LET cached == analysisCache[sym]
    IN IF CacheFresh(version, cached, now)
       THEN /\ reqs' = Append(reqs, Req(sym, now, "done", -1,
                                        Resp(200, "hit", cached.payload, 0, FALSE), cached.ts))
            /\ UNCHANGED lastAnalysisTime
       ELSE IF InCooldown(now, lastAnalysisTime)
       THEN /\ reqs' = Append(reqs, Req(sym, now, "done", -1,
                                        Resp(429, "wait", 0, WaitSec(now, lastAnalysisTime), FALSE),
                                        cached.ts))
            /\ UNCHANGED lastAnalysisTime
       ELSE IF ~hasKey
       THEN /\ reqs' = Append(reqs, Req(sym, now, "done", -1, Resp(503, "nokey", 0, 0, FALSE),
                                        cached.ts))
            /\ UNCHANGED lastAnalysisTime
       ELSE /\ lastAnalysisTime' = Reserve(now, lastAnalysisTime)
            /\ reqs' = Append(reqs, Req(sym, now, "calling", now, NoResp, cached.ts))

\* the handler of part_002 up to its first await, lines 296-346
Arrive002(sym) ==
    LET cached == analysisCache[sym]
    IN /\ UNCHANGED lastAnalysisTime
       /\ IF CacheFresh(version, cached, now)
          THEN reqs' = Append(reqs, Req(sym, now, "done", -1,
                                        Resp(200, "hit", cached.payload, 0, FALSE), cached.ts))
          ELSE IF ~hasKey
          THEN reqs' = Append(reqs, Req(sym, now, "done", -1, Resp(200, "nokey", 0, 0, TRUE),
                                        cached.ts))
          ELSE reqs' = Append(reqs, Req(sym, now, "news", -1, NoResp, cached.ts))

\* a GET /api/analysis?symbol=sym arrives
Arrive(sym) ==
    /\ version \in AnalysisVersions
    /\ Len(reqs) < MaxReqs
    /\ IF version = "part_001" THEN Arrive001(sym) ELSE Arrive002(sym)
    /\ UNCHANGED <<version, now, collectVars, storeVars, hasKey, analysisCache, nAdvance>>

\* how an awaited call may fail: with a rate-limit error, or with another one
Failures == {"rateLimit", "error"}

\* part_002 catch, lines 431-462: msg says 429 or rate limit, or not
Catch002(cache, sym, failure) ==
    IF failure = "rateLimit"
    THEN IF cache[sym] # NoEntry
         THEN Resp(200, "stale", cache[sym].payload, 0, TRUE)
         ELSE Resp(200, "placeholder", 0, 0, TRUE)
    ELSE Resp(200, "placeholder", 0, 0, TRUE)

\* part_001 catch, lines 395-406: err.status === 429, or not
Catch001(failure) ==
    IF failure = "rateLimit" THEN Resp(429, "error", 0, 300, FALSE)
    ELSE Resp(500, "error", 0, 0, FALSE)

\* part_002: the fetch of the headlines (lines 344-367) settles; after it the
\* handler runs on to client.chat.completions.create
NewsDone(i) ==
    /\ version = "part_002"
    /\ i \in DOMAIN reqs
    /\ reqs[i].pc = "news"
    /\ \/ reqs' = [reqs EXCEPT ![i].pc = "calling", ![i].callAt = now, ![i].build = "ok"]
       \/ \E f \in Failures :
              reqs' = [reqs EXCEPT ![i].pc = "done", ![i].build = f,
                          ![i].resp = Catch002(analysisCache, reqs[i].sym, f)]
    /\ UNCHANGED <<version, now, collectVars, storeVars, hasKey, analysisCache, lastAnalysisTime, nAdvance>>

\* a set that also drops the entries of the other subjects
CacheSetEvicting(cache, sym, t, payload) ==
    [s \in DOMAIN cache |-> IF s = sym THEN [ts |-> t, payload |-> payload] ELSE NoEntry]

\* analysisCache.set(key, { data/payload, timestamp/ts: now }) with the
\* request's own now; the payload is named after the request that made it
CacheSet(cache, sym, t, payload) == [cache EXCEPT ![sym] = [ts |-> t, payload |-> payload]]

\* the call of the generation collaborator settles
CallDone(i) ==
    /\ i \in DOMAIN reqs
    /\ reqs[i].pc = "calling"
    /\ \/ /\ analysisCache' = CacheSet(analysisCache, reqs[i].sym, reqs[i].now, i)
          /\ reqs' = [reqs EXCEPT ![i].pc = "done", ![i].gen = "ok",
                         ![i].resp = Resp(200, "ok", i, 0, FALSE)]
       \/ /\ \E f \in Failures :
                reqs' = [reqs EXCEPT ![i].pc = "done", ![i].gen = f,
                            ![i].resp = IF version = "part_001" THEN Catch001(f)
                                        ELSE Catch002(analysisCache, reqs[i].sym, f)]
          /\ UNCHANGED analysisCache
    /\ UNCHANGED <<version, now, collectVars, storeVars, hasKey, lastAnalysisTime, nAdvance>>

\* the gaps between events: just inside and just outside the cooldown and the TTL
Durations(v) ==
    {ANALYSIS_COOLDOWN_MS - 1, ANALYSIS_COOLDOWN_MS, ANALYSIS_TTL_MS(v) - 1, ANALYSIS_TTL_MS(v)}

\* time passes
Advance ==
    /\ nAdvance < MaxAdvance
    /\ \E d \in Durations(version) : now' = now + d
    /\ nAdvance' = nAdvance + 1
    /\ UNCHANGED <<version, collectVars, storeVars, hasKey, analysisCache, lastAnalysisTime, reqs>>

InitAnalysis ==
    /\ analysisCache = [s \in Subjects |-> NoEntry]
    /\ lastAnalysisTime = 0
    /\ reqs = <<>>
    /\ nAdvance = 0

NoQuery == [symbol |-> "", start |-> 0, end |-> 0, upTo |-> 0, rows |-> <<>>, table |-> <<>>]

(***************************************************************************)
(* The service worker of the page, sw.js.  A URL is its origin and the     *)
(* segments of its path: "/api/latest" is <<"api", "latest">>.  A response *)
(* is the number of the network fetch that gave it.                        *)
(***************************************************************************)
MaxEvents == 3

\* self.location.origin
SELF == "https://fxdash.example"

Url(origin, pathname) == [origin |-> origin, pathname |-> pathname]

\* "/", "/index.html", "/manifest.webmanifest"
APP_SHELL == {Url(SELF, <<>>), Url(SELF, <<"index.html">>), Url(SELF, <<"manifest.webmanifest">>)}

\* what the page asks for: two API paths, a shell file, a path that only
\* resembles the API prefix, and an API path of another origin
Requested ==
    {Url(SELF, <<"api", "latest">>), Url(SELF, <<"api", "candles">>), Url(SELF, <<"index.html">>),
     Url(SELF, <<"api">>), Url("https://other.example", <<"api", "latest">>)}

NoResponse == 0

\* the response that install fetched for a file of the app shell
PRECACHED == 1

NoAnswer == [from |-> "pending", res |-> NoResponse]

\* after install and activate: the cache fxdash-v1 holds the app shell and
\* no other cache is left
SwInstalled ==
    [cache |-> [u \in Requested \cup APP_SHELL |-> IF u \in APP_SHELL THEN PRECACHED ELSE NoResponse],
     events |-> <<>>,
     puts |-> {},
     served |-> PRECACHED]

NoCandles ==
    [symbol |-> "", interval |-> <<>>, range |-> <<>>, at |-> 0, table |-> <<>>, status |-> 0,
     out |-> <<>>]

InitStore ==
    /\ batches = <<>>
    /\ lastQuery = NoQuery
    /\ lastCandles = NoCandles
    /\ sw = SwInstalled

InitCollect ==
    /\ InitStore
    /\ state = BeginState(version, InitState(version))
    /\ ticks = <<>>
    /\ cycles = [c \in CycleIds |->
                    IF c = 1 THEN Begin(version, InitState(version), 1, BootTime, FALSE)
                    ELSE IdleCycle]
    /\ lastRead = [snap |-> NoSnap, during |-> {}]

(***************************************************************************)
(* The collection cycles.                                                  *)
(***************************************************************************)
Init ==
    /\ version \in Versions
    /\ now = BootTime
    /\ hasKey = TRUE
    /\ InitCollect
    /\ InitAnalysis

Next ==
    \/ \E c \in CycleIds : StartCycle(c)
    \/ \E c \in CycleIds : FxDone(c)
    \/ \E c \in CycleIds : KrDone(c)
    \/ \E c \in CycleIds : UsDone(c)
    \/ \E c \in CycleIds : DxyDone(c)
    \/ \E c \in CycleIds : CrawlFxDone(c)
    \/ \E c \in CycleIds : CrawlBondDone(c)
    \/ \E c \in CycleIds : CrawlDxyDone(c)

Spec == Init /\ [][Next]_vars

(***************************************************************************)
(* The boot cycle with readers of the snapshot.                            *)
(***************************************************************************)
NextRead ==
    \/ \E c \in CycleIds : FxDone(c)
    \/ \E c \in CycleIds : KrDone(c)
    \/ \E c \in CycleIds : UsDone(c)
    \/ \E c \in CycleIds : DxyDone(c)
    \/ \E c \in CycleIds : CrawlFxDone(c)
    \/ \E c \in CycleIds : CrawlBondDone(c)
    \/ \E c \in CycleIds : CrawlDxyDone(c)
    \/ ReadLatest

SpecRead == Init /\ [][NextRead]_vars

(***************************************************************************)
(* The boot cycle with sources that may never answer. fetchText awaits      *)
(* fetch(url, { headers }) with no signal and no timer of its own, so an    *)
(* awaited fetch whose source stays silent never settles. A fetch that is   *)
(* answered resumes its caller: the event loop runs every continuation that *)
(* is ready.                                                                *)
(***************************************************************************)
Silent(src) ==
    CASE src = "fx" -> "fx-silent"
      [] src = "kr" -> "kr-silent"
      [] src = "us" -> "us-silent"
      [] src = "bond" -> "bond-silent"
      [] src = "dxy" -> "dxy-silent"

\* the source of the fetch src of cycle c never answers
SourceSilent(c, src) ==
    /\ IF version \in RefreshVersions
       THEN /\ cycles[c].pc = src
            /\ cycles' = [cycles EXCEPT ![c].pc = Silent(src)]
       ELSE /\ cycles[c].pc = "crawl"
            /\ src \in cycles[c].pending
            /\ cycles' = [cycles EXCEPT ![c].pending = (@ \ {src}) \cup {Silent(src)}]
    /\ UNCHANGED <<version, now, state, ticks, lastRead, analysisVars, storeVars>>

NextSilent ==
    \/ \E c \in CycleIds : FxDone(c)
    \/ \E c \in CycleIds : KrDone(c)
    \/ \E c \in CycleIds : UsDone(c)
    \/ \E c \in CycleIds : DxyDone(c)
    \/ \E c \in CycleIds : CrawlFxDone(c)
    \/ \E c \in CycleIds : CrawlBondDone(c)
    \/ \E c \in CycleIds : CrawlDxyDone(c)
    \/ \E c \in CycleIds, src \in {"fx", "kr", "us", "bond", "dxy"} : SourceSilent(c, src)

\* every continuation of an answered fetch is run
FairSettling ==
    \A c \in CycleIds :
        /\ WF_vars(FxDone(c)) /\ WF_vars(KrDone(c)) /\ WF_vars(UsDone(c))
        /\ WF_vars(DxyDone(c)) /\ WF_vars(CrawlFxDone(c))
        /\ WF_vars(CrawlBondDone(c)) /\ WF_vars(CrawlDxyDone(c))

SpecSilent == Init /\ [][NextSilent]_vars /\ FairSettling

(***************************************************************************)
(* The ticks table on its own: batches handed to saveTicks, and the SELECT  *)
(* of getCandles over the window [now - range, now].                        *)
(***************************************************************************)
MaxBatches == 2
MaxElapse == 1

HOUR_MS == 60 * 60 * 1000

\* what an entry handed to saveTicks may hold; 1350.5 in 1e-4 units
EntryValues == {Null, Undefined, NaN, Infinity, Num(0), Num(13505000)}

\* the maps handed to saveTicks: one entry of any kind next to a finite one,
\* 3.456 in 1e-4 units
BatchMaps ==
    {[s \in Symbols |-> IF s = "USDKRW" THEN u ELSE IF s = "KR10Y" THEN Num(34560) ELSE Undefined] :
        u \in EntryValues}

\* the timestamp of a batch: nowMs() in refresh, Math.floor(nowMs() / 1000)
\* in collectData
TickTime(v, t) == IF v \in RefreshVersions THEN t ELSE t \div 1000

SaveTicks(v, tab, ts, c, map) ==
    IF v \in RefreshVersions THEN SaveTicksFinite(tab, ts, c, map)
    ELSE SaveTicksTruthy(tab, ts, c, map)

\* saveTicks(ts, map) is called
SaveBatch(map) ==
    /\ Len(batches) < MaxBatches
    /\ ticks' = SaveTicks(version, ticks, TickTime(version, now), Len(batches) + 1, map)
    /\ batches' = Append(batches, [ts |-> TickTime(version, now), map |-> map])
    /\ UNCHANGED <<version, now, state, cycles, lastRead, analysisVars, lastQuery, lastCandles,
                   sw>>

\* time passes: a millisecond, or an hour
Elapse ==
    /\ nAdvance < MaxElapse
    /\ \E d \in {1, HOUR_MS} : now' = now + d
    /\ nAdvance' = nAdvance + 1
    /\ UNCHANGED <<version, collectVars, storeVars, hasKey, analysisCache,
                   lastAnalysisTime, reqs>>

\* ORDER BY ts ASC: rows of equal ts stay in the order of their insertion
InsertByTs(sorted, r) ==
    LET k == Cardinality({i \in DOMAIN sorted : sorted[i].ts <= r.ts})
    IN SubSeq(sorted, 1, k) \o <<r>> \o SubSeq(sorted, k + 1, Len(sorted))

RECURSIVE OrderByTs(_)
OrderByTs(rows) ==
    IF rows = <<>> THEN <<>>
    ELSE InsertByTs(OrderByTs(SubSeq(rows, 1, Len(rows) - 1)), rows[Len(rows)])

\* the first bound of the SELECT: end - parseRangeToMs(range), in part_001
\* Math.floor(startTime / 1000)
QueryStart(v, t, rangeMs) == IF v \in RefreshVersions THEN t - rangeMs ELSE (t - rangeMs) \div 1000

\* SELECT ts, value FROM ticks WHERE symbol=? AND ts>=? AND ts<=? ORDER BY ts ASC
\* (part_000, part_002); part_001 has no ts<=? in its WHERE
SelectTicks(v, tab, sym, start, end) ==
    LET hits == SelectSeq(tab, LAMBDA r :
                    /\ r.symbol = sym
                    /\ r.ts >= start
                    /\ v \in RefreshVersions => r.ts <= end)
    IN OrderByTs([i \in 1 .. Len(hits) |-> [ts |-> hits[i].ts, value |-> hits[i].value]])

\* the ranges asked for: "0h" and "1h"
Ranges == {0, HOUR_MS}

\* getCandles reads the ticks of sym over the last rangeMs
QueryTicks(sym, rangeMs) ==
    /\ lastQuery' =
          [symbol |-> sym,
           start |-> QueryStart(version, now, rangeMs),
           end |-> TickTime(version, now),
           upTo |-> Len(batches),
           table |-> ticks,
           rows |-> SelectTicks(version, ticks, sym, QueryStart(version, now, rangeMs),
                                TickTime(version, now))]
    /\ UNCHANGED <<version, now, state, ticks, cycles, lastRead, analysisVars, batches,
                   lastCandles, sw>>

NextStore ==
    \/ \E map \in BatchMaps : SaveBatch(map)
    \/ Elapse
    \/ \E sym \in {"USDKRW", "KR10Y"}, rangeMs \in Ranges : QueryTicks(sym, rangeMs)

SpecStore == Init /\ [][NextStore]_vars

(***************************************************************************)
(* The candles.  A query string is a sequence of one-character strings.    *)
(***************************************************************************)
MaxTicks == 3

MINUTE_MS == 60 * 1000
DAY_MS == 24 * HOUR_MS

Digits == {"0", "1", "2", "3", "4", "5", "6", "7", "8", "9"}

DigitOf(ch) ==
    CASE ch = "0" -> 0 [] ch = "1" -> 1 [] ch = "2" -> 2 [] ch = "3" -> 3 [] ch = "4" -> 4
      [] ch = "5" -> 5 [] ch = "6" -> 6 [] ch = "7" -> 7 [] ch = "8" -> 8 [] ch = "9" -> 9

\* parseInt(m[1], 10) of a run of digits
RECURSIVE ParseInt(_)
ParseInt(ds) ==
    IF ds = <<>> THEN 0
    ELSE 10 * ParseInt(SubSeq(ds, 1, Len(ds) - 1)) + DigitOf(ds[Len(ds)])

\* text.match(/^(\d+)([units])$/)
Matches(text, units) ==
    /\ Len(text) >= 2
    /\ \A i \in 1 .. Len(text) - 1 : text[i] \in Digits
    /\ text[Len(text)] \in units

UnitMs(u) ==
    CASE u = "s" -> 1000 [] u = "m" -> MINUTE_MS [] u = "h" -> HOUR_MS [] u = "d" -> DAY_MS

\* parseRangeToMs: "7d", "24h" (part_001 also "30m"); anything else is the
\* default range of the variant
parseRangeToMs(v, range) ==
    IF Matches(range, IF v = "part_001" THEN {"m", "h", "d"} ELSE {"d", "h"})
    THEN ParseInt(SubSeq(range, 1, Len(range) - 1)) * UnitMs(range[Len(range)])
    ELSE IF v = "part_001" THEN DAY_MS ELSE 7 * DAY_MS

\* intervalToMs: "30m", "2h" (part_002 also "10s"); anything else is the
\* default width of the variant
intervalToMs(v, interval) ==
    IF Matches(interval, IF v = "part_002" THEN {"s", "m", "h"} ELSE {"m", "h"})
    THEN ParseInt(SubSeq(interval, 1, Len(interval) - 1)) * UnitMs(interval[Len(interval)])
    ELSE IF v = "part_001" THEN MINUTE_MS ELSE 30 * MINUTE_MS

\* Math.floor(ts / bucketMs) * bucketMs: ts / 0 is Infinity (or NaN for
\* ts = 0), and Infinity * 0 is NaN
bucketStart(ts, bucketMs) ==
    IF bucketMs = 0 THEN NaN ELSE Num((ts \div bucketMs) * bucketMs)

\* the lesser taken where the greater is meant
Lesser(a, b) == IF a >= b THEN b ELSE a

Max(a, b) == IF a >= b THEN a ELSE b
Min(a, b) == IF a <= b THEN a ELSE b

\* the bucket of a row: part_001 keeps ts in seconds and buckets ts * 1000
BucketOf(v, ts, bucketMs) ==
    bucketStart(IF v \in RefreshVersions THEN ts ELSE ts * 1000, bucketMs)

\* a candle of its own for every row
FoldRowsApart(v, rows, bucketMs) ==
    [i \in DOMAIN rows |->
        [t |-> BucketOf(v, rows[i].ts, bucketMs), o |-> rows[i].value.v, h |-> rows[i].value.v,
         l |-> rows[i].value.v, c |-> rows[i].value.v]]

\* the Map of getCandles after the rows, in the order of its keys' insertion;
\* the rows hold finite numbers
RECURSIVE FoldRows(_, _, _)
FoldRows(v, rows, bucketMs) ==
    IF rows = <<>> THEN <<>>
    ELSE LET map == FoldRows(v, SubSeq(rows, 1, Len(rows) - 1), bucketMs)
             r == rows[Len(rows)]
             b == BucketOf(v, r.ts, bucketMs)
             x == r.value.v
         IN IF \A i \in DOMAIN map : map[i].t # b
            THEN Append(map, [t |-> b, o |-> x, h |-> x, l |-> x, c |-> x])
            ELSE [i \in DOMAIN map |->
                    IF map[i].t = b
                    THEN [map[i] EXCEPT !.h = Max(map[i].h, x), !.l = Min(map[i].l, x), !.c = x]
                    ELSE map[i]]

\* sort((a, b) => a.t - b.t); the keys of a Map are distinct, and a NaN key
\* is the only key of its Map
InsertByT(sorted, x) ==
    LET k == Cardinality({i \in DOMAIN sorted : sorted[i].t.v <= x.t.v})
    IN SubSeq(sorted, 1, k) \o <<x>> \o SubSeq(sorted, k + 1, Len(sorted))

RECURSIVE SortByT(_)
SortByT(cs) ==
    IF Len(cs) <= 1 THEN cs
    ELSE InsertByT(SortByT(SubSeq(cs, 1, Len(cs) - 1)), cs[Len(cs)])

\* part_001 answers time: Math.floor(time / 1000)
TimeOut(v, t) ==
    IF v \in RefreshVersions \/ t = NaN THEN t ELSE Num(t.v \div 1000)

\* the rows read in the order of their insertion instead of ORDER BY ts
getCandlesUnordered(v, tab, symbol, interval, range, t) ==
    LET rows == SelectSeq(tab, LAMBDA r :
                    /\ r.symbol = symbol
                    /\ r.ts >= QueryStart(v, t, parseRangeToMs(v, range))
                    /\ v \in RefreshVersions => r.ts <= TickTime(v, t))
        map == FoldRows(v, rows, intervalToMs(v, interval))
    IN SortByT([i \in DOMAIN map |-> [map[i] EXCEPT !.t = TimeOut(v, map[i].t)]])

\* the buckets counted from the start of the window instead of from 0
getCandlesFromStart(v, tab, symbol, interval, range, t) ==
    LET start == QueryStart(v, t, parseRangeToMs(v, range))
        rows == SelectTicks(v, tab, symbol, start, TickTime(v, t))
        map == FoldRows(v, [i \in DOMAIN rows |-> [rows[i] EXCEPT !.ts = @ - start]],
                        intervalToMs(v, interval))
        back == IF v \in RefreshVersions THEN start ELSE start * 1000
    IN SortByT([i \in DOMAIN map |->
                  [map[i] EXCEPT !.t = IF @ = NaN THEN @ ELSE TimeOut(v, Num(@.v + back))]])

\* getCandles(symbol, interval, range) called at time t over the table tab
getCandles(v, tab, symbol, interval, range, t) ==
    LET rows == SelectTicks(v, tab, symbol, QueryStart(v, t, parseRangeToMs(v, range)),
                            TickTime(v, t))
        map == FoldRows(v, rows, intervalToMs(v, interval))
    IN SortByT([i \in DOMAIN map |-> [map[i] EXCEPT !.t = TimeOut(v, map[i].t)]])

\* the instants of the ticks before boot, in ms, and their values
TickInstants == {0, 30000, 59999, 60000}
TickValues == {90, 100, 110}

\* what a client sends as interval and as range
Intervals == {<<"1", "m">>, <<"0", "m">>, <<"a", "b", "c">>}
RangeTexts == {<<"1", "h">>, <<"0", "d">>, <<"a", "b", "c">>}

\* GET /api/candles: res.json answers 200 with the candles
Candles(symbol, interval, range) ==
    /\ lastCandles' = [symbol |-> symbol, interval |-> interval, range |-> range, at |-> now,
                       table |-> ticks, status |-> 200,
                       out |-> getCandles(version, ticks, symbol, interval, range, now)]
    /\ UNCHANGED <<version, now, state, ticks, cycles, lastRead, analysisVars, batches,
                   lastQuery, sw>>

\* the rows follow one another with the clock, or against it after the clock
\* was set back; rows of one instant differ in value
InOrder(ts, xs) ==
    \/ \A i \in DOMAIN ts \ {1} : ts[i - 1] * 1000 + xs[i - 1] < ts[i] * 1000 + xs[i]
    \/ \A i \in DOMAIN ts \ {1} : ts[i - 1] * 1000 + xs[i - 1] > ts[i] * 1000 + xs[i]

\* a table of up to MaxTicks ticks of USDKRW
InitCandles ==
    /\ version \in Versions
    /\ now = BootTime
    /\ hasKey = TRUE
    /\ InitStore
    /\ state = BeginState(version, InitState(version))
    /\ \E n \in 0 .. MaxTicks :
         \E ts \in [1 .. n -> TickInstants], xs \in [1 .. n -> TickValues] :
            /\ InOrder(ts, xs)
            /\ ticks = [i \in 1 .. n |-> Row(TickTime(version, ts[i]), "USDKRW", Num(xs[i]), 0)]
    /\ cycles = [c \in CycleIds |-> IdleCycle]
    /\ lastRead = [snap |-> NoSnap, during |-> {}]
    /\ InitAnalysis

NextCandles ==
    \E interval \in Intervals, range \in RangeTexts : Candles("USDKRW", interval, range)

SpecCandles == InitCandles /\ [][NextCandles]_vars

\* calls of getCandles while time passes and ticks are written
MaxOldTicks == 1

InitRecall ==
    /\ InitCandles
    /\ Len(ticks) <= MaxOldTicks
    /\ \A i \in DOMAIN ticks : ticks[i].value = Num(100)

NextRecall ==
    \/ \E range \in RangeTexts : Candles("USDKRW", <<"1", "m">>, range)
    \/ \E map \in {m \in BatchMaps : IsFiniteNumber(m["USDKRW"]) /\ Truthy(m["USDKRW"])} :
          SaveBatch(map)
    \/ Elapse

SpecRecall == InitRecall /\ [][NextRecall]_vars

(***************************************************************************)
(* The fetch listener of sw.js.                                            *)
(***************************************************************************)
\* url.pathname.startsWith("/api/")
StartsWithApi(pathname) == Len(pathname) >= 2 /\ pathname[1] = "api"

\* the listener up to its return: no respondWith for another origin (the
\* browser fetches by itself), fetch(req) for the API, caches.match(req) for
\* the rest
Route(url) ==
    IF url.origin # SELF THEN [route |-> "none", pc |-> "fetch"]
    ELSE IF StartsWithApi(url.pathname) THEN [route |-> "api", pc |-> "fetch"]
    ELSE [route |-> "static", pc |-> "match"]

FetchEvent(url) ==
    [url |-> url, route |-> Route(url).route, pc |-> Route(url).pc, failed |-> FALSE,
     answer |-> NoAnswer]

\* caches.match(req) resolves: the entry of the request, or undefined
Matched(cache, url) ==
    IF cache[url] # NoResponse THEN [from |-> "cache", res |-> cache[url]]
    ELSE [from |-> "nothing", res |-> NoResponse]

\* the page requests url and the fetch event is dispatched
Dispatch(url) ==
    /\ Len(sw.events) < MaxEvents
    /\ sw' = [sw EXCEPT !.events = Append(@, FetchEvent(url))]
    /\ UNCHANGED <<version, now, collectVars, analysisVars, batches, lastQuery, lastCandles>>

\* fetch(req) of event i resolves with a response: the API branch hands
\* a clone to caches.open(CACHE_NAME).then((cache) => cache.put(req, copy)),
\* which it does not wait for, and answers the response
NetOk(i) ==
    /\ i \in DOMAIN sw.events
    /\ sw.events[i].pc = "fetch"
    /\ LET e == sw.events[i]
           n == sw.served + 1
       IN sw' = [sw EXCEPT
                    !.served = n,
                    !.puts = IF e.route = "api" THEN @ \cup {[url |-> e.url, res |-> n]} ELSE @,
                    !.events[i] = [e EXCEPT !.pc = "done",
                                            !.answer = [from |-> "network", res |-> n]]]
    /\ UNCHANGED <<version, now, collectVars, analysisVars, batches, lastQuery, lastCandles>>

\* fetch(req) of event i rejects: .catch(() => caches.match(req)) in the API
\* branch, a network error for the page in the others
NetFail(i) ==
    /\ i \in DOMAIN sw.events
    /\ sw.events[i].pc = "fetch"
    /\ sw' = [sw EXCEPT
                 !.events[i] =
                    IF @.route = "api" THEN [@ EXCEPT !.pc = "match", !.failed = TRUE]
                    ELSE [@ EXCEPT !.pc = "done", !.failed = TRUE,
                                   !.answer = [from |-> "error", res |-> NoResponse]]]
    /\ UNCHANGED <<version, now, collectVars, analysisVars, batches, lastQuery, lastCandles>>

\* caches.match(req) of event i resolves: the answer of the API branch after
\* a failed fetch; in the static branch the answer if there is an entry,
\* and fetch(req) if there is none
MatchDone(i) ==
    /\ i \in DOMAIN sw.events
    /\ sw.events[i].pc = "match"
    /\ LET e == sw.events[i]
           m == Matched(sw.cache, e.url)
       IN sw' = [sw EXCEPT
                    !.events[i] =
                       IF e.route = "static" /\ m.from = "nothing" THEN [e EXCEPT !.pc = "fetch"]
                       ELSE [e EXCEPT !.pc = "done", !.answer = m]]
    /\ UNCHANGED <<version, now, collectVars, analysisVars, batches, lastQuery, lastCandles>>

\* a cache.put(req, copy) completes, once the body of its copy has arrived:
\* the puts outstanding complete in any order
PutDone(p) ==
    /\ p \in sw.puts
    /\ sw' = [sw EXCEPT !.cache[p.url] = p.res, !.puts = @ \ {p}]
    /\ UNCHANGED <<version, now, collectVars, analysisVars, batches, lastQuery, lastCandles>>

InitWorker == InitCandles /\ ticks = <<>>

NextWorker ==
    \/ \E url \in Requested : Dispatch(url)
    \/ \E i \in 1 .. MaxEvents : NetOk(i)
    \/ \E i \in 1 .. MaxEvents : NetFail(i)
    \/ \E i \in 1 .. MaxEvents : MatchDone(i)
    \/ \E p \in [url : Requested, res : 1 .. MaxEvents + PRECACHED] : PutDone(p)

SpecWorker == InitWorker /\ [][NextWorker]_vars

(***************************************************************************)
(* The analysis requests.                                                  *)
(***************************************************************************)
InitGuard ==
    /\ version \in AnalysisVersions
    /\ now = BootTime
    /\ hasKey \in BOOLEAN
    /\ InitCollect
    /\ InitAnalysis

NextGuard ==
    \/ \E sym \in Subjects : Arrive(sym)
    \/ \E i \in 1 .. MaxReqs : NewsDone(i)
    \/ \E i \in 1 .. MaxReqs : CallDone(i)
    \/ Advance

SpecGuard == InitGuard /\ [][NextGuard]_vars

\* the analysis requests of the server of part_002 alone
InitGuard002 == InitGuard /\ version = "part_002"

SpecGuard002 == InitGuard002 /\ [][NextGuard]_vars

(***************************************************************************)
(* The analysis requests that find an expired cache entry: an earlier       *)
(* request for USDKRW called the collaborator at BootTime, its answer was   *)
(* cached, and one TTL has passed since.                                    *)
(***************************************************************************)
InitExpiry ==
    /\ version \in AnalysisVersions
    /\ now = BootTime + ANALYSIS_TTL_MS(version)
    /\ hasKey \in BOOLEAN
    /\ InitCollect
    /\ analysisCache = [s \in Subjects |->
                           IF s = "USDKRW" THEN [ts |-> BootTime, payload |-> 0] ELSE NoEntry]
    /\ lastAnalysisTime = IF version = "part_001" THEN BootTime ELSE 0
    /\ reqs = <<>>
    /\ nAdvance = 0

SpecExpiry == InitExpiry /\ [][NextGuard]_vars

(***************************************************************************)
(* The claims.                                                             *)
(***************************************************************************)
Done(c) == cycles[c].pc = "done"

\* C1: in every cycle, no tick is written for a primary indicator whose fetch
\* failed in that cycle; a value an earlier cycle left in the snapshot is not
\* carried into the batch write.
C1_NoTickForFailedFetch ==
    \A i \in DOMAIN ticks :
        ticks[i].symbol \in Primary => ticks[i].symbol \in cycles[ticks[i].cyc].got

\* C2: a tick of the computed indicator SPREAD10Y is written in a cycle only
\* if US10Y and KR10Y were both obtained in that same cycle.
C2_SpreadOnlyWithBothInputs ==
    \A i \in DOMAIN ticks :
        ticks[i].symbol = "SPREAD10Y" =>
            {"US10Y", "KR10Y"} \subseteq cycles[ticks[i].cyc].got

\* C3: a read of the snapshot made while one cycle is in flight sees the whole
\* snapshot of before the cycle or the whole snapshot of after it, never a
\* mixture of the two.
C3_ReadsSeeWholeSnapshots ==
    \A c \in CycleIds :
        (lastRead.during = {c} /\ cycles[c].alone /\ Done(c)) =>
            lastRead.snap \in {cycles[c].pre, cycles[c].post}

Called == {i \in DOMAIN reqs : reqs[i].callAt # -1}

\* C4: any two calls of the generation collaborator are issued at least one
\* cooldown apart, whatever their subjects, and no two are in flight at once.
C4_GlobalCooldown ==
    /\ \A i, j \in Called :
          i # j => Abs(reqs[i].callAt - reqs[j].callAt) >= ANALYSIS_COOLDOWN_MS
    /\ Cardinality({i \in DOMAIN reqs : reqs[i].pc = "calling"}) <= 1

\* the degraded answers of the guard
StaleAnswer(payload) == Resp(200, "stale", payload, 0, TRUE)
Placeholder == Resp(200, "placeholder", 0, 0, TRUE)

\* C5: when the generation call fails with a rate-limit error, the request
\* answers the subject's cache entry (expired or not) marked degraded if there
\* is one, and a degraded placeholder if there is none; never an error.
C5_RateLimitDegrades ==
    [][\A i \in DOMAIN reqs :
          (reqs[i].pc = "calling" /\ reqs'[i].gen = "rateLimit") =>
              reqs'[i].resp =
                  IF analysisCache[reqs[i].sym] # NoEntry
                  THEN StaleAnswer(analysisCache[reqs[i].sym].payload)
                  ELSE Placeholder]_vars

\* C6: when the generation call, or the building of its inputs, fails with an
\* error that is no rate-limit error, the request answers a degraded
\* placeholder; no failure reaches the caller as an error.
C6_OtherFailureDegrades ==
    [][\A i \in DOMAIN reqs :
          ((reqs[i].pc = "calling" /\ reqs'[i].gen = "error")
              \/ (reqs[i].pc = "news" /\ reqs'[i].build = "error"))
          => reqs'[i].resp = Placeholder]_vars

\* the request that arrives in this step, if one does
Arrives(i) == i = Len(reqs) + 1 /\ Len(reqs') = i

\* C7: a request for a subject whose cache entry is younger than the TTL
\* answers that entry's payload, calls nothing, and leaves the cache and the
\* time of the last call as they were.
C7_CacheHit ==
    [][\A i \in 1 .. MaxReqs :
          LET e == analysisCache[reqs'[i].sym]
          IN (Arrives(i) /\ e # NoEntry /\ now - e.ts < ANALYSIS_TTL_MS(version)) =>
                 /\ reqs'[i].resp = Resp(200, "hit", e.payload, 0, FALSE)
                 /\ reqs'[i].pc = "done"
                 /\ reqs'[i].callAt = -1
                 /\ analysisCache' = analysisCache
                 /\ lastAnalysisTime' = lastAnalysisTime]_vars

\* C7: a request was answered from an entry one millisecond short of the TTL
C7_Witness ==
    \E i \in DOMAIN reqs :
        /\ reqs[i].resp.kind = "hit"
        /\ reqs[i].now - reqs[i].cachedTs = ANALYSIS_TTL_MS(version) - 1

\* the time of the latest call of the generation collaborator, 0 before any
LastGlobalCallTime ==
    IF Called = {} THEN 0
    ELSE CHOOSE t \in {reqs[i].callAt : i \in Called} :
             \A i \in Called : reqs[i].callAt <= t

\* C8: a request that misses the cache less than a cooldown after the last
\* call answers 'not yet' with a wait above zero and at most the cooldown,
\* calls nothing, and leaves the time of the last call and the cache alone.
C8_CooldownRefusal ==
    [][\A i \in 1 .. MaxReqs :
          LET e == analysisCache[reqs'[i].sym]
          IN (/\ Arrives(i)
              /\ ~(e # NoEntry /\ now - e.ts < ANALYSIS_TTL_MS(version))
              /\ now - LastGlobalCallTime < ANALYSIS_COOLDOWN_MS) =>
                 /\ reqs'[i].resp.kind = "wait"
                 /\ reqs'[i].resp.retryAfter > 0
                 /\ reqs'[i].resp.retryAfter * 1000 <= ANALYSIS_COOLDOWN_MS
                 /\ reqs'[i].pc = "done"
                 /\ reqs'[i].callAt = -1
                 /\ analysisCache' = analysisCache
                 /\ lastAnalysisTime' = lastAnalysisTime]_vars

\* C9 (part_001): the step in which a request passes the cooldown check is
\* the step that sets lastAnalysisTime to its now, and the call is issued
\* after it; the call's failure leaves lastAnalysisTime alone; a request that
\* arrives less than a cooldown after a call was issued calls nothing, and is
\* refused unless the cache serves it.
C9_ReserveBeforeCall ==
    [][version = "part_001" =>
          \A i \in 1 .. MaxReqs :
              /\ (Arrives(i) /\ reqs'[i].callAt # -1) =>
                     /\ now - lastAnalysisTime >= ANALYSIS_COOLDOWN_MS
                     /\ lastAnalysisTime' = reqs'[i].now
                     /\ reqs'[i].callAt = reqs'[i].now
              /\ (i \in DOMAIN reqs /\ reqs[i].pc = "calling" /\ reqs'[i].pc = "done") =>
                     lastAnalysisTime' = lastAnalysisTime
              /\ (/\ Arrives(i)
                  /\ \E k \in Called : now - reqs[k].callAt < ANALYSIS_COOLDOWN_MS) =>
                     /\ reqs'[i].callAt = -1
                     /\ LET e == analysisCache[reqs'[i].sym]
                        IN ~(e # NoEntry /\ now - e.ts < ANALYSIS_TTL_MS(version)) =>
                               reqs'[i].resp.kind = "wait"]_vars

\* C9: a call failed, and a request that came later but within the cooldown
\* was refused
C9_Witness ==
    /\ version = "part_001"
    /\ \E i, j \in DOMAIN reqs :
          /\ i < j
          /\ reqs[i].gen \in Failures
          /\ reqs[j].now > reqs[i].callAt
          /\ reqs[j].now - reqs[i].callAt < ANALYSIS_COOLDOWN_MS
          /\ reqs[j].resp.kind = "wait"
          /\ lastAnalysisTime = reqs[i].callAt

\* C10: two requests for one subject within a cooldown, the subject having no
\* cache entry before the first: the second answers 'wait' and the generation
\* collaborator is called exactly once.
C10_SecondCallWaits ==
    \A i, j \in DOMAIN reqs :
        (/\ i < j
         /\ hasKey
         /\ reqs[i].sym = reqs[j].sym
         /\ reqs[i].cachedTs = -1
         /\ reqs[j].now - reqs[i].now < ANALYSIS_COOLDOWN_MS
         /\ reqs[i].pc = "done" /\ reqs[j].pc = "done") =>
            /\ reqs[j].resp.kind = "wait"
            /\ Cardinality({k \in {i, j} : reqs[k].callAt # -1}) = 1

\* a request that found its subject's cache entry aged to the TTL or beyond
FoundExpired(i) ==
    reqs[i].cachedTs # -1 /\ reqs[i].now - reqs[i].cachedTs >= ANALYSIS_TTL_MS(version)

\* C11 as claimed: with the key configured, an answered request that found
\* its subject's entry aged to the TTL or beyond has called the generation
\* collaborator, whatever requests for other subjects came before it.
C11_ExpiredEntryCalls ==
    \A i \in DOMAIN reqs :
        (hasKey /\ FoundExpired(i) /\ reqs[i].pc = "done") => reqs[i].callAt # -1

\* the calls issued less than a cooldown before request i arrived
RecentCalls(i) ==
    {k \in Called : k < i /\ reqs[i].now - reqs[k].callAt < ANALYSIS_COOLDOWN_MS}

\* C11 amended: a request that found its subject's entry aged to the TTL or
\* beyond is never answered as a cache hit; it calls the collaborator (once,
\* at its one call site) exactly when the key is configured and, in part_001,
\* no call for any subject was issued less than a cooldown before it, in
\* part_002, its headlines were fetched; otherwise it calls nothing.
C11_ExpiredEntryCallsUnlessGuarded ==
    \A i \in DOMAIN reqs :
        FoundExpired(i) =>
            /\ reqs[i].resp.kind # "hit"
            /\ reqs[i].callAt # -1 <=>
                   /\ hasKey
                   /\ version = "part_001" => RecentCalls(i) = {}
                   /\ version = "part_002" => reqs[i].build = "ok"
            /\ version = "part_001" /\ hasKey /\ RecentCalls(i) # {} =>
                   reqs[i].resp.kind = "wait"

\* C11: a request found an entry of age exactly the TTL and called the
\* collaborator, after a request for the other subject had been answered
C11_Witness ==
    \E i, j \in DOMAIN reqs :
        /\ j < i
        /\ reqs[j].sym # reqs[i].sym
        /\ reqs[i].now - reqs[i].cachedTs = ANALYSIS_TTL_MS(version)
        /\ reqs[i].callAt # -1

\* what the snapshot slot of a fetched indicator holds after cycle c, given
\* what it held before: the value fetched in c, or the value of before
SlotAfter(c, s) ==
    IF s \in cycles[c].got
    THEN cycles[c].post.val[s] \in {Num(x) : x \in YieldValues(c, s)}
    ELSE cycles[c].post.val[s] = cycles[c].pre.val[s]

\* C12 as claimed: when a cycle completes, each fetched indicator it obtained
\* holds the newly fetched value in the snapshot, and each one whose fetch
\* failed holds the value it held when the cycle started.
C12_SnapshotAfterCycle ==
    \A c \in CycleIds : Done(c) => \A s \in Primary : SlotAfter(c, s)

\* C12 amended: the same, of a cycle that ran with no other cycle in flight.
C12_SnapshotAfterLoneCycle ==
    \A c \in CycleIds :
        (Done(c) /\ cycles[c].alone) => \A s \in Primary : SlotAfter(c, s)

\* C12: the second cycle ran alone, obtained one indicator and failed to
\* fetch another one that the first cycle had obtained
C12_Witness ==
    /\ MaxCycles >= 2 /\ Done(2) /\ cycles[2].alone
    /\ \E s, t \in Primary :
          /\ s \in cycles[2].got
          /\ t \notin cycles[2].got
          /\ cycles[2].pre.val[t] \in {Num(x) : x \in YieldValues(1, t)}
          /\ state.val[t] = cycles[2].pre.val[t]

\* C13: when a cycle (that ran alone) completes, the snapshot status is OK if
\* every fetched indicator was obtained in that cycle, and the degraded status
\* (WARN) if at least one was not, one missing FX rate included.
C13_StatusTellsCompleteness ==
    \A c \in CycleIds :
        (Done(c) /\ cycles[c].alone) =>
            cycles[c].post.status = IF Primary \subseteq cycles[c].got THEN "OK" ELSE "WARN"

\* C14: the snapshot's error list never has more than the cap of entries, and
\* when a cycle completes the list holds messages of that cycle only, none of
\* an earlier or an overlapping cycle.
C14_ErrorsOfThisCycleOnly ==
    /\ Len(state.errors) <= ERRORS_CAP
    /\ \A c \in CycleIds :
          Done(c) => \A k \in DOMAIN cycles[c].post.errors : cycles[c].post.errors[k].cyc = c

\* the awaited fetches of a refresh() call, and what each one obtains
RefreshSources == {"fx", "kr", "us", "dxy"}

Yields(src) ==
    CASE src = "fx" -> {"USDKRW", "EURKRW"}
      [] src = "kr" -> {"KR10Y"}
      [] src = "us" -> {"US10Y"}
      [] src = "dxy" -> {"DXY"}

\* every fetch of cycle c has settled, each one once: as a value or as a failure
AllSettledOnce(c) ==
    IF version \in RefreshVersions
    THEN \A src \in RefreshSources :
            LET failed == {k \in DOMAIN cycles[c].errors : cycles[c].errors[k] = Msg(c, src)}
            IN /\ Cardinality(failed) <= 1
               /\ (failed # {}) # (Yields(src) \cap cycles[c].got # {})
    ELSE /\ cycles[c].pending = {}
         /\ \A src \in {"fx", "bond", "dxy"} :
                Cardinality({k \in DOMAIN state.errors : state.errors[k] = Msg(c, src)}) <= 1

\* the batch write of cycle c has happened: a tick of c for each obtained value
BatchWritten(c) ==
    \A s \in cycles[c].got : \E i \in DOMAIN ticks : ticks[i].cyc = c /\ ticks[i].symbol = s

\* C15: a failed fetch never aborts the cycle: a completed cycle has settled
\* every fetch (once each, no retry), has written a tick for each value it
\* obtained and has stamped the snapshot; and after a cycle with a failed
\* fetch the timer can still start the next cycle.
C15_FailureDoesNotAbort ==
    \A c \in CycleIds :
        /\ Done(c) =>
               /\ AllSettledOnce(c)
               /\ BatchWritten(c)
               /\ cycles[c].post # NoSnap
               /\ cycles[c].post.asofKST >= cycles[c].ts
        /\ (cycles[c].pc # "idle" /\ c < MaxCycles /\ cycles[c + 1].pc = "idle") =>
               ENABLED StartCycle(c + 1)

\* C15: the first cycle failed to fetch one indicator, obtained another one
\* and wrote its tick, and the timer started the second cycle afterwards
C15_Witness ==
    /\ Done(1)
    /\ \E s, t \in Primary :
          /\ s \notin cycles[1].got
          /\ t \in cycles[1].got
          /\ \E i \in DOMAIN ticks : ticks[i].cyc = 1 /\ ticks[i].symbol = t
    /\ cycles[1].post.errors # <<>>
    /\ MaxCycles >= 2 /\ cycles[2].pc # "idle" /\ cycles[2].ts > cycles[1].post.asofKST

\* C16: every cycle that has started eventually completes, also when a source
\* never answers.
C16_EveryCycleCompletes ==
    \A c \in CycleIds : [](cycles[c].pc # "idle" => <>Done(c))

\* C17: the ticks table never holds a value that is not finite, and every
\* finite entry of every batch is in it, whatever else the batch held.
C17_StoreHoldsFiniteOnly ==
    /\ \A i \in DOMAIN ticks : IsFiniteNumber(ticks[i].value)
    /\ \A b \in DOMAIN batches : \A s \in Symbols :
          IsFiniteNumber(batches[b].map[s]) =>
              \E i \in DOMAIN ticks : ticks[i] = Row(batches[b].ts, s, batches[b].map[s], b)

\* the finite ticks of indicator sym handed to the first n batch writes with
\* start <= timestamp <= end, in the order of the writes
WrittenTicks(sym, start, end, n) ==
    LET all == [b \in 1 .. n |-> [ts |-> batches[b].ts, value |-> batches[b].map[sym]]]
    IN SelectSeq(all, LAMBDA r : IsFiniteNumber(r.value) /\ start <= r.ts /\ r.ts <= end)

\* C18: a query of one indicator over [start, end] returns exactly the finite
\* ticks of that indicator written so far with start <= timestamp <= end
\* (value 0 included), in ascending order of timestamp.
C18_QueryReturnsWrittenTicks ==
    lastQuery # NoQuery =>
        /\ lastQuery.rows =
               WrittenTicks(lastQuery.symbol, lastQuery.start, lastQuery.end, lastQuery.upTo)
        /\ \A i, j \in DOMAIN lastQuery.rows :
               i < j => lastQuery.rows[i].ts <= lastQuery.rows[j].ts

\* the entries of batch b that the running server's saveTicks is to persist
KeptSymbols(b) ==
    {s \in Symbols :
        IF version \in RefreshVersions THEN IsFiniteNumber(batches[b].map[s])
        ELSE s \in Primary /\ Truthy(batches[b].map[s])}

\* the indicators of which the table tab holds a row written by batch b
SeenOf(tab, b) == {tab[i].symbol : i \in {j \in DOMAIN tab : tab[j].cyc = b}}

\* C19: the table a query reads holds, of every batch, all the ticks (those of
\* the batches written before the query) or none (those written after it),
\* never a part of a batch.
C19_BatchAtomicForReaders ==
    lastQuery # NoQuery =>
        \A b \in 1 .. MaxBatches :
            SeenOf(lastQuery.table, b) =
                IF b <= lastQuery.upTo THEN KeptSymbols(b) ELSE {}

\* C19: a query ran between two batches of two ticks each
C19_Witness ==
    /\ lastQuery # NoQuery
    /\ lastQuery.upTo = 1 /\ Len(batches) = 2
    /\ Len(lastQuery.table) = 2 /\ Len(ticks) = 4
    /\ Len(lastQuery.rows) = 1

\* the number of rows of tab with timestamp ts and indicator s
RowCount(tab, ts, s) == Cardinality({i \in DOMAIN tab : tab[i].ts = ts /\ tab[i].symbol = s})

\* C20: every step leaves the rows the table held where and as they were,
\* and a batch adds one row for each of its finite nonzero entries, also when
\* the table already holds a row of that timestamp and indicator.
C20_AppendOnly ==
    [][/\ Len(ticks') >= Len(ticks)
       /\ SubSeq(ticks', 1, Len(ticks)) = ticks
       /\ Len(batches') = Len(batches) + 1 =>
              LET new == batches'[Len(batches')]
              IN \A s \in Primary :
                     (IsFiniteNumber(new.map[s]) /\ new.map[s].v # 0) =>
                         RowCount(ticks', new.ts, s) = RowCount(ticks, new.ts, s) + 1]_vars

\* C20: the table holds two ticks of one timestamp and one indicator
C20_Witness ==
    \E i, j \in DOMAIN ticks :
        /\ i < j
        /\ ticks[i].ts = ticks[j].ts
        /\ ticks[i].symbol = ticks[j].symbol
        /\ ticks[i].cyc # ticks[j].cyc


\* the rows of the table that the latest call of getCandles read
Read ==
    {i \in DOMAIN ticks :
        /\ ticks[i].symbol = lastCandles.symbol
        /\ ticks[i].ts >= QueryStart(version, lastCandles.at,
                                     parseRangeToMs(version, lastCandles.range))
        /\ version \in RefreshVersions => ticks[i].ts <= TickTime(version, lastCandles.at)}

\* the rows that the latest call put into the bucket answered as t
Members(t) ==
    {i \in Read :
        TimeOut(version, BucketOf(version, ticks[i].ts,
                                  intervalToMs(version, lastCandles.interval))) = t}

\* C21: in every candle that getCandles answers, open is the value of a tick
\* of the bucket with the earliest timestamp, close the value of one with the
\* latest, high the greatest value of the bucket and low the least
C21_OpenHighLowClose ==
    \A k \in DOMAIN lastCandles.out :
        LET x == lastCandles.out[k]
            M == Members(x.t)
        IN /\ M # {}
           /\ \E i \in M : (\A j \in M : ticks[i].ts <= ticks[j].ts) /\ x.o = ticks[i].value.v
           /\ \E i \in M : (\A j \in M : ticks[i].ts >= ticks[j].ts) /\ x.c = ticks[i].value.v
           /\ \E i \in M : (\A j \in M : ticks[i].value.v >= ticks[j].value.v)
                           /\ x.h = ticks[i].value.v
           /\ \E i \in M : (\A j \in M : ticks[i].value.v <= ticks[j].value.v)
                           /\ x.l = ticks[i].value.v

\* the ticks (0, 100), (30000, 110), (59999, 90), the last one inserted first,
\* under a width of one minute give the one candle o 100, h 110, l 90, c 90
C21_Witness ==
    /\ version \in RefreshVersions
    /\ lastCandles.interval = <<"1", "m">>
    /\ {<<ticks[i].ts, ticks[i].value.v>> : i \in DOMAIN ticks}
         = {<<0, 100>>, <<30000, 110>>, <<59999, 90>>}
    /\ Len(ticks) = 3
    /\ ticks[1].ts = 59999
    /\ lastCandles.out = <<[t |-> Num(0), o |-> 100, h |-> 110, l |-> 90, c |-> 90]>>

\* C22: every candle that getCandles answers has low <= open <= high,
\* low <= close <= high and low <= high
C22_LowBelowHigh ==
    \A k \in DOMAIN lastCandles.out :
        LET x == lastCandles.out[k]
        IN /\ x.l <= x.o /\ x.o <= x.h
           /\ x.l <= x.c /\ x.c <= x.h
           /\ x.l <= x.h

\* a candle whose close lies strictly between its low and its high, and whose
\* open is its low
C22_Witness ==
    \E k \in DOMAIN lastCandles.out :
        LET x == lastCandles.out[k]
        IN x.l = x.o /\ x.l < x.c /\ x.c < x.h

\* C23: the candles that getCandles answers ascend strictly by bucketStart,
\* every bucket that holds a tick read has exactly one candle, no candle is
\* without a tick, and a reading of no tick answers the empty sequence
C23_OneCandlePerBucket ==
    LET out == lastCandles.out
    IN /\ \A i, j \in DOMAIN out :
            i < j => /\ out[i].t.k = "number" /\ out[j].t.k = "number"
                     /\ out[i].t.v < out[j].t.v
       /\ \A r \in Read : Cardinality({k \in DOMAIN out : r \in Members(out[k].t)}) = 1
       /\ \A k \in DOMAIN out : Members(out[k].t) # {}
       /\ Read = {} => out = <<>>

\* three ticks read, two of them in the bucket of the first minute and one
\* in the next
C23_Witness ==
    /\ Len(lastCandles.out) = 2
    /\ Cardinality(Members(lastCandles.out[1].t)) = 2
    /\ Cardinality(Members(lastCandles.out[2].t)) = 1
    /\ lastCandles.out[1].t = Num(0)

\* a width or a range that parses, under the variant's own pattern, to a
\* positive number of milliseconds
Positive(text, units) ==
    /\ Matches(text, units)
    /\ ParseInt(SubSeq(text, 1, Len(text) - 1)) > 0

ValidInterval(v, text) == Positive(text, IF v = "part_002" THEN {"s", "m", "h"} ELSE {"m", "h"})
ValidRange(v, text) == Positive(text, IF v = "part_001" THEN {"m", "h", "d"} ELSE {"d", "h"})

\* C24: a request whose width or range does not parse or is zero is refused
\* (400, InvalidParameter) and answers no candle, and no candle answered
\* has a bucketStart that is not an integer
C24_InvalidParameterRefused ==
    lastCandles # NoCandles =>
        /\ (~ValidInterval(version, lastCandles.interval)
              \/ ~ValidRange(version, lastCandles.range))
             => lastCandles.status = 400 /\ lastCandles.out = <<>>
        /\ \A k \in DOMAIN lastCandles.out : lastCandles.out[k].t.k = "number"

\* a timestamp of the table or of an answer in ms: part_001 keeps seconds
InMs(ts) == IF version \in RefreshVersions THEN ts ELSE ts * 1000

\* the tick of row i lies in the bucket of candle x of width w
Holds(x, i, w) ==
    /\ x.t.k = "number"
    /\ w > 0
    /\ InMs(x.t.v) % w = 0
    /\ InMs(x.t.v) <= InMs(ticks[i].ts)
    /\ InMs(ticks[i].ts) < InMs(x.t.v) + w

\* C27: every tick read is folded into exactly one candle, whose bucketStart b
\* is a multiple of the width w of the call with b <= t < b + w
C27_TickInItsBucket ==
    LET w == intervalToMs(version, lastCandles.interval)
    IN \A i \in Read :
          Cardinality({k \in DOMAIN lastCandles.out : Holds(lastCandles.out[k], i, w)}) = 1

\* the rows that a call of getCandles read
ReadBy(call) ==
    {i \in DOMAIN call.table :
        /\ call.table[i].symbol = call.symbol
        /\ call.table[i].ts >= QueryStart(version, call.at, parseRangeToMs(version, call.range))
        /\ version \in RefreshVersions => call.table[i].ts <= TickTime(version, call.at)}

SameArguments(a, b) ==
    a.symbol = b.symbol /\ a.interval = b.interval /\ a.range = b.range

\* C25: a call of getCandles that follows one of the same arguments with no
\* tick written between answers the same candles, and a call changes neither
\* the ticks table nor the snapshot
C25_SameAnswerAgain ==
    [][/\ (lastCandles # NoCandles /\ SameArguments(lastCandles, lastCandles')
             /\ lastCandles'.table = lastCandles.table)
          => lastCandles'.out = lastCandles.out
       /\ lastCandles' # lastCandles => ticks' = ticks /\ state' = state]_vars

\* C25 amended: the same, for two calls whose windows, each ending at the
\* time of its call, hold the same ticks
C25_SameAnswerOverSameTicks ==
    [][/\ (lastCandles # NoCandles /\ SameArguments(lastCandles, lastCandles')
             /\ lastCandles'.table = lastCandles.table
             /\ ReadBy(lastCandles') = ReadBy(lastCandles))
          => lastCandles'.out = lastCandles.out
       /\ lastCandles' # lastCandles => ticks' = ticks /\ state' = state]_vars

\* a call after time has passed whose window holds the ticks that the window
\* of a call at boot held, and which answers a candle
C25_Witness ==
    /\ lastCandles.at > BootTime
    /\ lastCandles.range = <<"1", "h">>
    /\ lastCandles.interval = <<"1", "m">>
    /\ ReadBy(lastCandles) # {}
    /\ ReadBy(lastCandles) = ReadBy([lastCandles EXCEPT !.at = BootTime])
    /\ lastCandles.out # <<>>

\* request i ends in this step with a successful generation call
Succeeds(i) ==
    /\ i \in DOMAIN reqs
    /\ reqs[i].pc = "calling"
    /\ reqs'[i].pc = "done"
    /\ reqs'[i].gen = "ok"

\* C26: a cache entry changes only in a step in which a generation call for
\* its subject succeeds; that step stores the result under the subject and
\* answers it; and an entry once set is never absent again
C26_CacheWrittenBySuccessOnly ==
    [][/\ \A s \in Subjects :
            analysisCache'[s] # analysisCache[s] =>
                \E i \in DOMAIN reqs : Succeeds(i) /\ reqs[i].sym = s
       /\ \A i \in DOMAIN reqs :
            Succeeds(i) =>
                /\ analysisCache'[reqs[i].sym] # NoEntry
                /\ analysisCache'[reqs[i].sym].payload = reqs'[i].resp.payload
                /\ reqs'[i].resp.http = 200
                /\ ~reqs'[i].resp.degraded
       /\ \A s \in Subjects : analysisCache[s] # NoEntry => analysisCache'[s] # NoEntry]_vars

\* the entry of one subject stands as its call stored it after the call of a
\* second request failed and while an entry of the other subject is absent
C26_Witness ==
    /\ Len(reqs) = 2
    /\ reqs[1].gen = "ok"
    /\ reqs[2].gen \in Failures
    /\ reqs[2].sym = reqs[1].sym
    /\ analysisCache[reqs[1].sym] = [ts |-> reqs[1].now, payload |-> 1]

\* C29: the timestamp of a subject's cache entry never decreases when the
\* entry is overwritten
C29_GeneratedAtNeverDecreases ==
    [][\A s \in Subjects :
          analysisCache[s] # NoEntry => analysisCache'[s].ts >= analysisCache[s].ts]_vars

\* US10Y minus KR10Y at the rounding of the variant: a number of three
\* decimals in part_000 and part_002, a string of two decimals in part_001
SpreadOf(v, us, kr) ==
    IF v \in RefreshVersions THEN Num(ToFixed(us.v - kr.v, 3)) ELSE Str(ToFixed(us.v - kr.v, 2))

\* the spread of snapshot st is US10Y minus KR10Y of st
SpreadAgrees(st) == st.val["SPREAD10Y"] = SpreadOf(version, st.val["US10Y"], st.val["KR10Y"])

\* C30: once a cycle has completed, a snapshot that holds a number for US10Y
\* and for KR10Y holds their difference as its spread
C30_SpreadOfSnapshotYields ==
    ((\E c \in CycleIds : Done(c))
        /\ IsFiniteNumber(state.val["US10Y"]) /\ IsFiniteNumber(state.val["KR10Y"]))
    => SpreadAgrees(state)

\* C30 amended: the snapshot that a cycle leaves when it completes, having run
\* with no other cycle in flight and obtained both yields, holds their
\* difference as its spread
C30_SpreadAfterLoneCycleWithBothYields ==
    \A c \in CycleIds :
        (Done(c) /\ cycles[c].alone /\ {"US10Y", "KR10Y"} \subseteq cycles[c].got)
        => SpreadAgrees(cycles[c].post)

\* the second cycle ran alone, obtained both yields and left 0.876 (0.88 in
\* part_001) as the spread
C30_Witness ==
    /\ MaxCycles >= 2 /\ Done(2) /\ cycles[2].alone
    /\ {"US10Y", "KR10Y"} \subseteq cycles[2].got
    /\ state = cycles[2].post
    /\ state.val["SPREAD10Y"] \in {Num(8760), Str(8800)}

\* the cycle whose fetch gave the value x of indicator s
CycleOf(s, x) == CHOOSE c \in CycleIds : x.v \in YieldValues(c, s)

\* C28: a snapshot slot that holds a value fetched by one cycle is never
\* overwritten with a value fetched by a cycle that started earlier, and of
\* two ticks of an indicator the one under the later timestamp never carries
\* the value of an earlier cycle than the other
C28_NoOlderValueOverNewer ==
    [][/\ \A s \in Primary :
            (IsFiniteNumber(state.val[s]) /\ IsFiniteNumber(state'.val[s]))
            => CycleOf(s, state'.val[s]) >= CycleOf(s, state.val[s])
       /\ \A i, j \in DOMAIN ticks' :
            (ticks'[i].symbol = ticks'[j].symbol /\ ticks'[i].symbol \in Primary
               /\ ticks'[i].ts < ticks'[j].ts)
            => CycleOf(ticks'[i].symbol, ticks'[i].value)
                 <= CycleOf(ticks'[j].symbol, ticks'[j].value)]_vars

\* the response of the latest fetch of url that succeeded so far
LastOk(url) ==
    LET got == {sw.events[j].answer.res : j \in {k \in DOMAIN sw.events :
                    sw.events[k].url = url /\ sw.events[k].answer.from = "network"}}
    IN IF got = {} THEN NoResponse ELSE CHOOSE n \in got : \A m \in got : m <= n

\* C31: an API request of the page's origin is answered with the response of
\* the network when its fetch succeeds, and that response is handed to the
\* cache; it is answered from the cache only when its fetch has failed, and
\* then with the response of the latest fetch of that request that succeeded
C31_NetworkFirstFallsBackToLatest ==
    [][\A i \in DOMAIN sw.events :
          LET e == sw.events[i]
              e2 == sw'.events[i]
          IN (e.route = "api" /\ e.pc # "done" /\ e2.pc = "done") =>
                IF e2.failed
                THEN /\ e2.answer.from \in {"cache", "nothing"}
                     /\ e2.answer.res = LastOk(e.url)
                ELSE /\ e2.answer = [from |-> "network", res |-> sw'.served]
                     /\ [url |-> e.url, res |-> sw'.served] \in sw'.puts]_vars
====
